---- MODULE Spec2Model ----
(***************************************************************************)
(* Model of extract-twitter-bookmarks:                                     *)
(*   - ExtractionTask (src/src/extraction-task.ts): the rxjs pipeline      *)
(*     open -> extract -> reduce(union) -> takeWhile, its observer         *)
(*     callbacks and stop().                                               *)
(*   - Client (src/unnamed/part_000): the login state machine.             *)
(* SpecTask runs one ExtractionTask; SpecClient runs any sequence of       *)
(* Client calls.                                                           *)
(***************************************************************************)
EXTENDS Integers, Sequences, FiniteSets

\* ------------------------------------------------------------------ bounds
MaxId == 2          \* tweet identifiers 1..MaxId
MaxBatchLen == 2    \* tweets per batch emitted by the extractor
MaxPulls == 2       \* batches emitted by the extractor in one run
MaxLimit == 2       \* finite values of options.maxLimit are 1..MaxLimit
MaxPMEvents == 1    \* events raised by the page manager in one run
MaxPMProgressEvents == 3 \* BookmarksPageManager.PROGRESS_EVENTS.length is in 0..this

\* Number.POSITIVE_INFINITY: larger than the size of any set of the model.
POSITIVE_INFINITY == 1000000

Bodies == {"a", "b"}

VARIABLES
    \* ---- ExtractionTask
    maxLimit,             \* options.maxLimit
    fileName,             \* options.fileName is set
    pc,                   \* where the run is
    stopCaller,           \* who called stop(): "none", "onComplete", "caller"
    hasAcc, acc,          \* state of reduce(): has seen a value, the accumulator
    pulls,                \* batches the pipeline has received from the extractor
    exceededAt,           \* index of the first batch after which Len(acc) > maxLimit, or 0
    tweets,               \* this.tweets
    tweetStreamClosed,    \* this.tweetStream is unsubscribed
    eventForwarderClosed, \* this.eventForwarder is unsubscribed
    forwarding,           \* the constructor's subscription to the page manager is live
    events,               \* 'progress' / 'message' events emitted by the task, in order
    completeAt,           \* Len(events) right after the extraction-complete event, or 0
    exportCalls, exported,\* calls of exportTweets, and the array handed to it
    printCalls, printed,  \* calls of printTweetsToStdOut, and the array handed to it
    sessionOpen,          \* the page manager's session is open
    closeCalls,           \* calls of bookmarksPageManager.close()
    successCalls, errorCalls, \* calls of options.successCallback / errorCallback
    errorCallbackAt,      \* Len(events) when errorCallback was called, or 0
    pmEmitted,            \* events the page manager has raised
    \* ---- Client
    pageManagerReady, state, lastAuthAttemptFailed, lastCodeAttemptFailed,
    location,             \* path of the page manager's current URL
    browserOpen,          \* the page manager holds a browser session
    lastCall,             \* the last Client method called
    pre,                  \* the Client's fields when that call began
    callEvents,           \* the events that call emitted, in order
    callSubmitted,        \* the submissions that call made to the page manager
    callLoc               \* the location that call saw after its submission

taskVars == <<maxLimit, fileName, pc, stopCaller, hasAcc, acc, pulls, exceededAt,
              tweets, tweetStreamClosed, eventForwarderClosed, forwarding, events,
              completeAt, exportCalls, exported, printCalls, printed, sessionOpen,
              closeCalls, successCalls, errorCalls, errorCallbackAt, pmEmitted>>
clientVars == <<pageManagerReady, state, lastAuthAttemptFailed, lastCodeAttemptFailed,
                location, browserOpen, lastCall, pre, callEvents, callSubmitted, callLoc>>
vars == <<taskVars, clientVars>>

\* ------------------------------------------------------------ Tweet sets
Min(a, b) == IF a <= b THEN a ELSE b

Tweet == [id : 1..MaxId, body : Bodies]

Contains(s, x) == \E i \in 1..Len(s) : s[i] = x

NoDuplicates(s) == \A i, j \in 1..Len(s) : s[i] = s[j] => i = j

\* TweetSet = OrderedSet<Map>: a sequence without (value-)equal elements.
Batches == {b \in UNION {[1..n -> Tweet] : n \in 0..MaxBatchLen} : NoDuplicates(b)}

\* OrderedSet.union: the values of newTweets not yet present are appended in
\* order; the values present keep their place.
RECURSIVE Union(_, _)
Union(currentTweets, newTweets) ==
    IF newTweets = <<>> THEN currentTweets
    ELSE Union(IF Contains(currentTweets, Head(newTweets))
                  THEN currentTweets
                  ELSE Append(currentTweets, Head(newTweets)),
               Tail(newTweets))

\* Array.prototype.slice(0, n)
Slice(s, n) == SubSeq(s, 1, Min(Len(s), n))

\* ---------------------------------------------------------------- events
EXPORT_TWEETS == "extractor:export:tweets"
BOOKMARKED_TWEETS_EXTRACTION == "extractor:tweets:extraction"
BOOKMARKED_TWEETS_EXTRACT_COMPLETE == "extractor:tweets:complete"

ProgressEvent(name, complete, total) ==
    [type |-> "progress", name |-> name, complete |-> complete, total |-> total]
MessageEvent(text) ==
    [type |-> "message", name |-> text, complete |-> 0, total |-> 0]


\* ======================================================== ExtractionTask
Limits == (1..MaxLimit) \cup {POSITIVE_INFINITY}

InitTask ==
    /\ maxLimit \in Limits
    /\ fileName \in BOOLEAN
    /\ pc = "constructed"
    /\ stopCaller = "none"
    /\ hasAcc = FALSE /\ acc = <<>>
    /\ pulls = 0 /\ exceededAt = 0
    /\ tweets = <<>>
    /\ tweetStreamClosed = FALSE
    /\ eventForwarderClosed = FALSE
    /\ forwarding = TRUE
    /\ events = <<>> /\ completeAt = 0
    /\ exportCalls = 0 /\ exported = <<>>
    /\ printCalls = 0 /\ printed = <<>>
    /\ sessionOpen = FALSE /\ closeCalls = 0
    /\ successCalls = 0 /\ errorCalls = 0 /\ errorCallbackAt = 0
    /\ pmEmitted = 0

\* ExtractionTask.PROGRESS_EVENTS
PROGRESS_EVENTS ==
    <<BOOKMARKED_TWEETS_EXTRACTION, BOOKMARKED_TWEETS_EXTRACT_COMPLETE, EXPORT_TWEETS>>

\* numEvents counting every entry of PROGRESS_EVENTS.
numEvents_wholeList(pageManagerEvents) ==
    LET taskSpecificEvents ==
            Len(PROGRESS_EVENTS)
            + (IF maxLimit # POSITIVE_INFINITY THEN maxLimit ELSE 0)
    IN  pageManagerEvents + taskSpecificEvents

\* get numEvents(), BookmarksPageManager.PROGRESS_EVENTS.length being
\* pageManagerEvents.
numEvents(pageManagerEvents) ==
    LET taskSpecificEvents ==
            (Len(PROGRESS_EVENTS) - 1)
            + (IF maxLimit # POSITIVE_INFINITY THEN maxLimit ELSE 0)
    IN  pageManagerEvents + taskSpecificEvents

\* reduce whose accumulator function returns the new batch alone.
ReduceStep_replace(seen, currentTweets, newTweets) == newTweets

\* reduce((currentTweets, newTweets) => currentTweets.union(newTweets)), no seed:
\* the first value is the accumulator, the later ones are merged into it.
ReduceStep(seen, currentTweets, newTweets) ==
    IF seen THEN Union(currentTweets, newTweets) ELSE newTweets

\* takeWhile letting every accumulated set through.
TakeWhilePredicate_always(currentTweets) == TRUE

\* takeWhile(currentTweets => currentTweets.size <= maxLimit)
TakeWhilePredicate(currentTweets) == Len(currentTweets) <= maxLimit

\* onExtractTweets without its early return for an unbounded limit.
OnExtractTweetsEvents_noGuard(t) ==
    <<ProgressEvent(BOOKMARKED_TWEETS_EXTRACTION, Len(t), maxLimit)>>

\* The events onExtractTweets(t) emits.
OnExtractTweetsEvents(t) ==
    IF maxLimit = POSITIVE_INFINITY
    THEN <<>>
    ELSE <<ProgressEvent(BOOKMARKED_TWEETS_EXTRACTION, Len(t), maxLimit)>>

\* tweets.toArray().slice(0, maxLimit).map(tweet => tweet.toObject())
tweetMapsToTweets(tw, limit) == Slice(tw, limit)

\* stopForwardingEvents(): unsubscribes this.eventForwarder, the empty Subscription
\* of the field initializer; the constructor's subscription is not stored in it.
stopForwardingEvents ==
    /\ eventForwarderClosed' = TRUE
    /\ forwarding' = forwarding

\* stopStreamingTweets()
stopStreamingTweets == tweetStreamClosed' = TRUE

\* stop() up to its first suspension, called by `caller` when this.tweets is tw
\* and the events emitted so far are evs: both unsubscriptions, the complete
\* event, the conversion, and exportTweets() up to `await exporter.export`
\* (without a file name exportTweets emits EXPORT_TWEETS at once).
Stop(caller, tw, evs) ==
    LET evs1 == Append(evs, ProgressEvent(BOOKMARKED_TWEETS_EXTRACT_COMPLETE, 0, 0))
        tweetsArray == tweetMapsToTweets(tw, maxLimit)
    IN  /\ stopCaller' = caller
        /\ stopForwardingEvents
        /\ stopStreamingTweets
        /\ completeAt' = Len(evs1)
        /\ exported' = tweetsArray
        /\ exportCalls' = exportCalls + 1
        /\ IF fileName
           THEN events' = evs1 /\ pc' = "exporting"
           ELSE /\ events' = Append(evs1, ProgressEvent(EXPORT_TWEETS, 0, 0))
                /\ pc' = "printing"

\* run(): builds the pipeline and subscribes; bookmarksPageManager.open() starts.
Run ==
    /\ pc = "constructed"
    /\ pc' = "opening"
    /\ UNCHANGED <<clientVars, maxLimit, fileName, stopCaller, hasAcc, acc, pulls, exceededAt,
                   tweets, tweetStreamClosed, eventForwarderClosed, forwarding,
                   events, completeAt, exportCalls, exported, printCalls, printed,
                   sessionOpen, closeCalls, successCalls, errorCalls, pmEmitted,
                   errorCallbackAt>>

\* open() resolves with the page; switchMap subscribes to extractor.extract(page).
OpenDone ==
    /\ pc = "opening"
    /\ pc' = "extracting"
    /\ sessionOpen' = TRUE
    /\ UNCHANGED <<clientVars, maxLimit, fileName, stopCaller, hasAcc, acc, pulls, exceededAt,
                   tweets, tweetStreamClosed, eventForwarderClosed, forwarding,
                   events, completeAt, exportCalls, exported, printCalls, printed,
                   closeCalls, successCalls, errorCalls, pmEmitted,
                   errorCallbackAt>>

\* The extractor emits a batch: reduce() merges it and emits nothing downstream.
Pull(b) ==
    /\ pc = "extracting"
    /\ ~tweetStreamClosed
    /\ pulls < MaxPulls
    /\ hasAcc' = TRUE
    /\ acc' = ReduceStep(hasAcc, acc, b)
    /\ pulls' = pulls + 1
    /\ exceededAt' = IF exceededAt = 0 /\ Len(acc') > maxLimit
                     THEN pulls' ELSE exceededAt
    /\ UNCHANGED <<clientVars, maxLimit, fileName, pc, stopCaller, tweets, tweetStreamClosed,
                   eventForwarderClosed, forwarding, events, completeAt,
                   exportCalls, exported, printCalls, printed, sessionOpen,
                   closeCalls, successCalls, errorCalls, pmEmitted,
                   errorCallbackAt>>

\* The extractor completes: reduce() emits its accumulator (if it has one),
\* takeWhile lets it through to onExtractTweets or drops it, and the stream
\* completes: onComplete() calls stop().
SourceComplete ==
    /\ pc = "extracting"
    /\ ~tweetStreamClosed
    /\ LET passes == hasAcc /\ TakeWhilePredicate(acc)
           tw == IF passes THEN acc ELSE tweets
           evs == IF passes THEN events \o OnExtractTweetsEvents(acc) ELSE events
       IN  /\ tweets' = tw
           /\ Stop("onComplete", tw, evs)
    /\ UNCHANGED <<clientVars, maxLimit, fileName, hasAcc, acc, pulls, exceededAt, printCalls,
                   printed, sessionOpen, closeCalls, successCalls, errorCalls,
                   pmEmitted,
                   errorCallbackAt>>

\* The message events onError(err) emits: err.message, then err.stack if the
\* error has one (Maybe.fromValue(err.stack).map(...)).
onErrorMessages(hasStack) ==
    <<MessageEvent("err.message")>>
        \o (IF hasStack THEN <<MessageEvent("err.stack")>> ELSE <<>>)

\* onError calling the error callback before it emits the messages.
SourceError_callbackFirst(hasStack) ==
    /\ pc \in {"opening", "extracting"}
    /\ ~tweetStreamClosed
    /\ errorCalls' = errorCalls + 1
    /\ errorCallbackAt' = Len(events)
    /\ events' = events \o onErrorMessages(hasStack)
    /\ tweetStreamClosed' = TRUE
    /\ pc' = "failed"
    /\ UNCHANGED <<clientVars, maxLimit, fileName, stopCaller, hasAcc, acc, pulls, exceededAt,
                   tweets, eventForwarderClosed, forwarding, completeAt,
                   exportCalls, exported, printCalls, printed, sessionOpen,
                   closeCalls, successCalls, pmEmitted>>

\* onError finalizing the run with stop(), as onComplete does.
SourceError_stops(hasStack) ==
    /\ pc \in {"opening", "extracting"}
    /\ ~tweetStreamClosed
    /\ errorCalls' = errorCalls + 1
    /\ errorCallbackAt' = Len(events \o onErrorMessages(hasStack))
    /\ Stop("onError", tweets, events \o onErrorMessages(hasStack))
    /\ UNCHANGED <<clientVars, maxLimit, fileName, hasAcc, acc, pulls, exceededAt,
                   tweets, printCalls, printed, sessionOpen, closeCalls,
                   successCalls, pmEmitted>>

\* open() rejects or the extractor fails: onError(err) emits the messages and
\* then calls errorCallback(err); the errored subscription is closed.
SourceError(hasStack) ==
    /\ pc \in {"opening", "extracting"}
    /\ ~tweetStreamClosed
    /\ events' = events \o onErrorMessages(hasStack)
    /\ errorCalls' = errorCalls + 1
    /\ errorCallbackAt' = Len(events')
    /\ tweetStreamClosed' = TRUE
    /\ pc' = "failed"
    /\ UNCHANGED <<clientVars, maxLimit, fileName, stopCaller, hasAcc, acc, pulls, exceededAt,
                   tweets, eventForwarderClosed, forwarding, completeAt,
                   exportCalls, exported, printCalls, printed, sessionOpen,
                   closeCalls, successCalls, pmEmitted>>

\* The caller calls stop() while the extraction is in progress.
StopCalled ==
    /\ pc = "extracting"
    /\ ~tweetStreamClosed
    /\ Stop("caller", tweets, events)
    /\ UNCHANGED <<clientVars, maxLimit, fileName, hasAcc, acc, pulls, exceededAt, tweets,
                   printCalls, printed, sessionOpen, closeCalls, successCalls,
                   errorCalls, pmEmitted,
                   errorCallbackAt>>

\* `await exporter.export(tweets)` resolves.
ExportDone ==
    /\ pc = "exporting"
    /\ events' = Append(events, ProgressEvent(EXPORT_TWEETS, 0, 0))
    /\ pc' = "printing"
    /\ UNCHANGED <<clientVars, maxLimit, fileName, stopCaller, hasAcc, acc, pulls, exceededAt,
                   tweets, tweetStreamClosed, eventForwarderClosed, forwarding,
                   completeAt, exportCalls, exported, printCalls, printed,
                   sessionOpen, closeCalls, successCalls, errorCalls, pmEmitted,
                   errorCallbackAt>>

\* exportTweets whose catch clause reports the failure and rethrows it: stop()
\* rejects and goes no further.
ExportFail_rethrows ==
    /\ pc = "exporting"
    /\ events' = Append(events, MessageEvent("Failed to export tweets to file."))
    /\ pc' = "aborted"
    /\ UNCHANGED <<clientVars, maxLimit, fileName, stopCaller, hasAcc, acc, pulls, exceededAt,
                   tweets, tweetStreamClosed, eventForwarderClosed, forwarding,
                   completeAt, exportCalls, exported, printCalls, printed,
                   sessionOpen, closeCalls, successCalls, errorCalls, pmEmitted,
                   errorCallbackAt>>

\* `await exporter.export(tweets)` rejects: the catch clause.
ExportFail ==
    /\ pc = "exporting"
    /\ events' = Append(events, MessageEvent("Failed to export tweets to file."))
    /\ pc' = "printing"
    /\ UNCHANGED <<clientVars, maxLimit, fileName, stopCaller, hasAcc, acc, pulls, exceededAt,
                   tweets, tweetStreamClosed, eventForwarderClosed, forwarding,
                   completeAt, exportCalls, exported, printCalls, printed,
                   sessionOpen, closeCalls, successCalls, errorCalls, pmEmitted,
                   errorCallbackAt>>

\* printTweetsToStdOut(tweetsArray), then bookmarksPageManager.close() is called.
printTweetsToStdOut ==
    /\ pc = "printing"
    /\ printCalls' = printCalls + 1
    /\ printed' = exported
    /\ closeCalls' = closeCalls + 1
    /\ pc' = "closing"
    /\ UNCHANGED <<clientVars, maxLimit, fileName, stopCaller, hasAcc, acc, pulls, exceededAt,
                   tweets, tweetStreamClosed, eventForwarderClosed, forwarding,
                   events, completeAt, exportCalls, exported, sessionOpen,
                   successCalls, errorCalls, pmEmitted,
                   errorCallbackAt>>

\* The page manager raises one of its PROGRESS_EVENTS while it opens or closes
\* the session; the constructor's subscription re-emits it on the task.
PageManagerEvent ==
    /\ pc \in {"opening", "closing"}
    /\ pmEmitted < MaxPMEvents
    /\ pmEmitted' = pmEmitted + 1
    /\ events' = IF forwarding
                 THEN Append(events, ProgressEvent("pageManager", 0, 0))
                 ELSE events
    /\ UNCHANGED <<clientVars, maxLimit, fileName, pc, stopCaller, hasAcc, acc, pulls,
                   exceededAt, tweets, tweetStreamClosed, eventForwarderClosed,
                   forwarding, completeAt, exportCalls, exported, printCalls,
                   printed, sessionOpen, closeCalls, successCalls, errorCalls,
                   errorCallbackAt>>

\* `await this.bookmarksPageManager.close()` resolves: stop() returns.
CloseDone ==
    /\ pc = "closing"
    /\ sessionOpen' = FALSE
    /\ pc' = "stopped"
    /\ UNCHANGED <<clientVars, maxLimit, fileName, stopCaller, hasAcc, acc, pulls, exceededAt,
                   tweets, tweetStreamClosed, eventForwarderClosed, forwarding,
                   events, completeAt, exportCalls, exported, printCalls, printed,
                   closeCalls, successCalls, errorCalls, pmEmitted,
                   errorCallbackAt>>

\* onComplete calling successCallback without awaiting stop().
OnCompleteResume_noAwait ==
    /\ pc \in {"exporting", "printing", "closing"}
    /\ stopCaller = "onComplete"
    /\ successCalls = 0
    /\ successCalls' = successCalls + 1
    /\ UNCHANGED <<clientVars, maxLimit, fileName, pc, stopCaller, hasAcc, acc, pulls,
                   exceededAt, tweets, tweetStreamClosed, eventForwarderClosed,
                   forwarding, events, completeAt, exportCalls, exported, printCalls,
                   printed, sessionOpen, closeCalls, errorCalls, pmEmitted,
                   errorCallbackAt>>

\* onComplete() resumes after `await this.stop()`: successCallback().
OnCompleteResume ==
    /\ pc = "stopped"
    /\ stopCaller = "onComplete"
    /\ successCalls' = successCalls + 1
    /\ pc' = "done"
    /\ UNCHANGED <<clientVars, maxLimit, fileName, stopCaller, hasAcc, acc, pulls, exceededAt,
                   tweets, tweetStreamClosed, eventForwarderClosed, forwarding,
                   events, completeAt, exportCalls, exported, printCalls, printed,
                   sessionOpen, closeCalls, errorCalls, pmEmitted,
                   errorCallbackAt>>

NextTask ==
    \/ Run
    \/ OpenDone
    \/ \E b \in Batches : Pull(b)
    \/ SourceComplete
    \/ \E hasStack \in BOOLEAN : SourceError(hasStack)
    \/ StopCalled
    \/ ExportDone
    \/ ExportFail
    \/ printTweetsToStdOut
    \/ PageManagerEvent
    \/ CloseDone
    \/ OnCompleteResume


\* ================================================================ Client
\* The paths the Client tests the current URL for (PATHNAMES), and "other" for
\* any other page; "none" when the page manager holds no page.
Paths == {"bookmarks", "challengeCode", "twoFaCode", "loggedOut", "other"}

BrowserNames == {"chromium", "firefox", "webkit", "opera"}
NAME_TO_BROWSER == {"chromium", "firefox", "webkit"}

\* pageManager.currentUrlHasPath(path), the current URL being at loc
currentUrlHasPath(loc, path) == loc = path

\* Where a page-manager operation can leave the page.
PageOutcomes == IF browserOpen THEN Paths ELSE {"none"}

loggedIn == state = "LoggedIn"
needsConfirmationCode == state = "NeedsConfirmationCode"
needs2FACode == state = "Needs2FACode"
loggedOut == state = "LoggedOut" \/ needsConfirmationCode \/ needs2FACode

Snapshot == [ready |-> pageManagerReady, state |-> state,
             auth |-> lastAuthAttemptFailed, code |-> lastCodeAttemptFailed,
             loggedIn |-> loggedIn]

InitClient ==
    /\ pageManagerReady = FALSE
    /\ state = "LoggedOut"
    /\ lastAuthAttemptFailed = FALSE
    /\ lastCodeAttemptFailed = FALSE
    /\ location = "none"
    /\ browserOpen = FALSE
    /\ lastCall = "none"
    /\ pre = Snapshot
    /\ callEvents = <<>>
    /\ callSubmitted = 0
    /\ callLoc = "none"

\* assertPageManagerReady(): emits, and returns to its caller either way.
assertPageManagerReady ==
    IF ~pageManagerReady THEN <<"internalError">> ELSE <<>>

\* init(browserName)
ClientInit(browserName) ==
    /\ lastCall' = "init"
    /\ pre' = Snapshot
    /\ UNCHANGED taskVars
    /\ callSubmitted' = 0
    /\ callLoc' = location
    /\ IF browserName \notin NAME_TO_BROWSER
       THEN /\ callEvents' = <<"userError">>
            /\ UNCHANGED <<pageManagerReady, browserOpen, location>>
       ELSE /\ browserOpen' = TRUE
            /\ location' = "other"
            /\ pageManagerReady' = TRUE
            /\ callEvents' = <<"success">>
    /\ UNCHANGED <<state, lastAuthAttemptFailed, lastCodeAttemptFailed>>

\* handleLoginIssue with the two code states swapped.
handleLoginIssue_swapped(loc) ==
    IF currentUrlHasPath(loc, "challengeCode")
    THEN [state |-> "Needs2FACode", auth |-> FALSE, location |-> loc,
          events |-> <<"actionRequired">>]
    ELSE IF currentUrlHasPath(loc, "twoFaCode")
    THEN [state |-> "NeedsConfirmationCode", auth |-> FALSE, location |-> loc,
          events |-> <<"actionRequired">>]
    ELSE [state |-> state, auth |-> TRUE,
          location |-> IF browserOpen THEN "other" ELSE "none",
          events |-> <<"userError">>]

\* handleLoginIssue(), the current URL being at loc: the fields and the event
\* it leaves.
handleLoginIssue(loc) ==
    IF currentUrlHasPath(loc, "challengeCode")
    THEN [state |-> "NeedsConfirmationCode", auth |-> FALSE, location |-> loc,
          events |-> <<"actionRequired">>]
    ELSE IF currentUrlHasPath(loc, "twoFaCode")
    THEN [state |-> "Needs2FACode", auth |-> FALSE, location |-> loc,
          events |-> <<"actionRequired">>]
    ELSE [state |-> state, auth |-> TRUE,
          location |-> IF browserOpen THEN "other" ELSE "none",
          events |-> <<"userError">>]

\* logIn without the `return` before handleLoginIssue(): it falls through to
\* the LoggedIn assignment and the success event.
logInReady_noReturn(loc) ==
    IF ~currentUrlHasPath(loc, "bookmarks")
    THEN [state |-> "LoggedIn", auth |-> handleLoginIssue(loc).auth,
          location |-> handleLoginIssue(loc).location,
          events |-> Append(handleLoginIssue(loc).events, "success")]
    ELSE [state |-> "LoggedIn", auth |-> FALSE, location |-> loc,
          events |-> <<"success">>]

\* logIn(credentials) on a ready controller, pageManager.logIn leaving the page
\* at loc.
logInReady(loc) ==
    IF ~currentUrlHasPath(loc, "bookmarks")
    THEN handleLoginIssue(loc)
    ELSE [state |-> "LoggedIn", auth |-> FALSE, location |-> loc,
          events |-> <<"success">>]

\* logIn(credentials)
LogIn(loc) ==
    /\ lastCall' = "logIn"
    /\ pre' = Snapshot
    /\ UNCHANGED taskVars
    /\ IF ~pageManagerReady
       THEN /\ callEvents' = <<"internalError">>
            /\ callSubmitted' = 0
            /\ callLoc' = location
            /\ UNCHANGED <<state, lastAuthAttemptFailed, location>>
       ELSE LET r == logInReady(loc)
            IN  /\ callSubmitted' = 1
                /\ callLoc' = loc
                /\ state' = r.state
                /\ lastAuthAttemptFailed' = r.auth
                /\ location' = r.location
                /\ callEvents' = r.events
    /\ UNCHANGED <<pageManagerReady, lastCodeAttemptFailed, browserOpen>>

\* enterCode that forgets to mark the attempt failed.
enterCode_noFlag(loc, path) ==
    [state |-> state,
     code |-> FALSE,
     submitted |-> 1,
     events |-> assertPageManagerReady
                \o (IF currentUrlHasPath(loc, path) THEN <<"userError">> ELSE <<>>)]

\* The body shared by enterConfirmationCode(code) and enterTwoFactorCode(code):
\* the page manager's submission leaves the page at loc and `path` is the
\* code-entry page the method tests for.
enterCode(loc, path) ==
    [state |-> state,
     code |-> currentUrlHasPath(loc, path),
     submitted |-> 1,
     events |-> assertPageManagerReady
                \o (IF currentUrlHasPath(loc, path) THEN <<"userError">> ELSE <<>>)]

\* enterConfirmationCode(code)
EnterConfirmationCode(loc) ==
    LET r == enterCode(loc, "challengeCode")
    IN  /\ lastCall' = "enterConfirmationCode"
        /\ pre' = Snapshot
        /\ UNCHANGED taskVars
        /\ callSubmitted' = r.submitted
        /\ callLoc' = loc
        /\ location' = loc
        /\ state' = r.state
        /\ lastCodeAttemptFailed' = r.code
        /\ callEvents' = r.events
        /\ UNCHANGED <<pageManagerReady, lastAuthAttemptFailed, browserOpen>>

\* enterTwoFactorCode(code)
EnterTwoFactorCode(loc) ==
    LET r == enterCode(loc, "twoFaCode")
    IN  /\ lastCall' = "enterTwoFactorCode"
        /\ pre' = Snapshot
        /\ UNCHANGED taskVars
        /\ callSubmitted' = r.submitted
        /\ callLoc' = loc
        /\ location' = loc
        /\ state' = r.state
        /\ lastCodeAttemptFailed' = r.code
        /\ callEvents' = r.events
        /\ UNCHANGED <<pageManagerReady, lastAuthAttemptFailed, browserOpen>>

\* logOut(emitEvent), pageManager.logOut leaving the page at loc: the state,
\* the location, the submissions and the events it leaves.
logOut(emitEvent, loc) ==
    IF ~pageManagerReady
    THEN [state |-> state, location |-> location, submitted |-> 0, events |-> <<>>]
    ELSE IF currentUrlHasPath(loc, "loggedOut")
    THEN [state |-> "LoggedOut", location |-> loc, submitted |-> 1,
          events |-> IF emitEvent THEN <<"success">> ELSE <<>>]
    ELSE [state |-> state, location |-> loc, submitted |-> 1, events |-> <<>>]

\* logOut(emitEvent = true)
LogOut(emitEvent, loc) ==
    LET r == logOut(emitEvent, loc)
    IN  /\ lastCall' = "logOut"
        /\ pre' = Snapshot
        /\ UNCHANGED taskVars
        /\ callSubmitted' = r.submitted
        /\ callLoc' = r.location
        /\ location' = r.location
        /\ state' = r.state
        /\ callEvents' = r.events
        /\ UNCHANGED <<pageManagerReady, lastAuthAttemptFailed,
                       lastCodeAttemptFailed, browserOpen>>

\* tearDown calling logOut() with its default argument.
tearDownLogOut_emits(loc) ==
    IF loggedIn
    THEN logOut(TRUE, loc)
    ELSE [state |-> state, location |-> location, submitted |-> 0, events |-> <<>>]

\* tearDown(): the logout it performs when loggedIn, pageManager.logOut leaving
\* the page at loc.
tearDownLogOut(loc) ==
    IF loggedIn
    THEN logOut(FALSE, loc)
    ELSE [state |-> state, location |-> location, submitted |-> 0, events |-> <<>>]

\* tearDown that also marks the page manager not ready.
TearDown_resetsReady(loc) ==
    LET r == tearDownLogOut(loc)
    IN  /\ lastCall' = "tearDown"
        /\ pre' = Snapshot
        /\ UNCHANGED taskVars
        /\ callSubmitted' = r.submitted
        /\ callLoc' = r.location
        /\ state' = r.state
        /\ browserOpen' = FALSE
        /\ location' = "none"
        /\ pageManagerReady' = FALSE
        /\ callEvents' = Append(r.events, "success")
        /\ UNCHANGED <<lastAuthAttemptFailed, lastCodeAttemptFailed>>

\* tearDown()
TearDown(loc) ==
    LET r == tearDownLogOut(loc)
    IN  /\ lastCall' = "tearDown"
        /\ pre' = Snapshot
        /\ UNCHANGED taskVars
        /\ callSubmitted' = r.submitted
        /\ callLoc' = r.location
        /\ state' = r.state
        /\ browserOpen' = FALSE
        /\ location' = "none"
        /\ callEvents' = Append(r.events, "success")
        /\ UNCHANGED <<pageManagerReady, lastAuthAttemptFailed, lastCodeAttemptFailed>>

NextClient ==
    \/ \E browserName \in BrowserNames : ClientInit(browserName)
    \/ \E loc \in PageOutcomes : LogIn(loc)
    \/ \E loc \in PageOutcomes : EnterConfirmationCode(loc)
    \/ \E loc \in PageOutcomes : EnterTwoFactorCode(loc)
    \/ \E emitEvent \in BOOLEAN, loc \in PageOutcomes : LogOut(emitEvent, loc)
    \/ \E loc \in PageOutcomes : TearDown(loc)

\* ======================================================== specifications
Init == InitTask /\ InitClient

\* One run of an ExtractionTask.
SpecTask == Init /\ [][NextTask]_vars

\* Any sequence of calls on one Client.
SpecClient == Init /\ [][NextClient]_vars


\* ================================================================ claims
EventNames == {events[i].name : i \in 1..Len(events)}

Count(name) == Cardinality({i \in 1..Len(events) : events[i].name = name})

\* C1: once the accumulated number of distinct tweets exceeds maxLimit after a
\* batch is merged, the pipeline receives no further batch: the batches
\* consumed end with the first one that takes the count over the limit.
C1_NoPullAfterLimitExceeded == exceededAt # 0 => pulls = exceededAt

\* C2: when a run completes normally, the array handed to the exporters is the
\* first min(n, maxLimit) tweets of the accumulated set in first-seen order, n
\* being the number of tweets accumulated (so maxLimit tweets, not none, when
\* the accumulation overshoots the limit).
C2_ExportedIsCappedAccumulation ==
    (stopCaller = "onComplete" /\ exportCalls > 0) => exported = Slice(acc, maxLimit)

\* C3: after stop() has emitted the extraction-complete event, no further
\* progress or message event is emitted by the task.
C3_NoEventAfterComplete == completeAt # 0 => Len(events) = completeAt

\* C4: a stop() called while the extraction is in progress, after at least one
\* batch has been pulled and merged, exports the tweets accumulated from those
\* batches, capped at the limit.
C4_StopExportsAccumulated ==
    (stopCaller = "caller" /\ pulls >= 1) => exported = Slice(acc, maxLimit)

\* C10: with no limit configured (maxLimit = +infinity) the task never emits an
\* extraction-progress ratio event, and a completed run has emitted the
\* extraction-complete event.
C10_UnboundedNoRatioEvent ==
    maxLimit = POSITIVE_INFINITY =>
        /\ BOOKMARKED_TWEETS_EXTRACTION \notin EventNames
        /\ pc = "done" => Count(BOOKMARKED_TWEETS_EXTRACT_COMPLETE) = 1

\* An unbounded run that has handed two or more tweets to onExtractTweets and
\* completed.
C10_Witness ==
    /\ maxLimit = POSITIVE_INFINITY
    /\ pc = "done"
    /\ pulls = MaxPulls
    /\ Len(tweets) >= 2

\* C5: on an initialized controller in state LoggedOut, one logIn call emits
\* exactly one event and sets the state by the resulting location: bookmarks ->
\* LoggedIn and success; challenge code -> NeedsConfirmationCode and
\* actionRequired; two-factor -> Needs2FACode and actionRequired; any other ->
\* still LoggedOut and userError.
C5_LogInTransitions ==
    (lastCall = "logIn" /\ pre.ready /\ pre.state = "LoggedOut") =>
        /\ Len(callEvents) = 1
        /\ callLoc = "bookmarks" =>
               state = "LoggedIn" /\ callEvents = <<"success">>
        /\ callLoc = "challengeCode" =>
               state = "NeedsConfirmationCode" /\ callEvents = <<"actionRequired">>
        /\ callLoc = "twoFaCode" =>
               state = "Needs2FACode" /\ callEvents = <<"actionRequired">>
        /\ callLoc \notin {"bookmarks", "challengeCode", "twoFaCode"} =>
               /\ state = "LoggedOut"
               /\ callEvents = <<"userError">>
               /\ lastAuthAttemptFailed

\* A logIn from LoggedOut that ended on the challenge-code page.
C5_Witness ==
    /\ lastCall = "logIn" /\ pre.ready /\ pre.state = "LoggedOut"
    /\ callLoc = "challengeCode"
    /\ state = "NeedsConfirmationCode"

\* C6: on a controller that has not been initialized, logIn,
\* enterConfirmationCode and enterTwoFactorCode each emit internalError, submit
\* nothing to the browser session and leave the state and the failure flags
\* unchanged.
C6_UninitializedCallsRejected ==
    (lastCall \in {"logIn", "enterConfirmationCode", "enterTwoFactorCode"}
     /\ ~pre.ready) =>
        /\ callEvents = <<"internalError">>
        /\ callSubmitted = 0
        /\ state = pre.state
        /\ lastAuthAttemptFailed = pre.auth
        /\ lastCodeAttemptFailed = pre.code

\* C7: on an initialized controller in a code-pending state, a code after which
\* the page is still the same code-entry page leaves the state unchanged, marks
\* the last code attempt failed and emits exactly one userError, however many
\* wrong codes came before.
C7_WrongCodeKeepsState ==
    /\ (lastCall = "enterTwoFactorCode" /\ pre.ready /\ pre.state = "Needs2FACode"
        /\ callLoc = "twoFaCode") =>
           /\ state = "Needs2FACode"
           /\ lastCodeAttemptFailed
           /\ callEvents = <<"userError">>
    /\ (lastCall = "enterConfirmationCode" /\ pre.ready
        /\ pre.state = "NeedsConfirmationCode" /\ callLoc = "challengeCode") =>
           /\ state = "NeedsConfirmationCode"
           /\ lastCodeAttemptFailed
           /\ callEvents = <<"userError">>

\* A wrong two-factor code right after another failed code attempt.
C7_Witness ==
    /\ lastCall = "enterTwoFactorCode" /\ pre.ready /\ pre.state = "Needs2FACode"
    /\ callLoc = "twoFaCode"
    /\ pre.code
    /\ lastCodeAttemptFailed

\* C8: from Needs2FACode (NeedsConfirmationCode), enterTwoFactorCode
\* (enterConfirmationCode) with a correct code, the page having advanced to the
\* bookmarks page, ends in LoggedIn: loggedIn is true and loggedOut is false.
C8_CorrectCodeLogsIn ==
    /\ (lastCall = "enterTwoFactorCode" /\ pre.ready /\ pre.state = "Needs2FACode"
        /\ callLoc = "bookmarks") => (loggedIn /\ ~loggedOut)
    /\ (lastCall = "enterConfirmationCode" /\ pre.ready
        /\ pre.state = "NeedsConfirmationCode" /\ callLoc = "bookmarks") =>
           (loggedIn /\ ~loggedOut)

\* C9: tearDown() from any state releases the browser session and emits exactly
\* one event, success, last; the logout it performs from LoggedIn emits nothing.
C9_TearDownReleasesAndSucceeds ==
    lastCall = "tearDown" => (~browserOpen /\ callEvents = <<"success">>)

\* A tearDown from LoggedIn whose logout did not reach the logged-out page.
C9_Witness ==
    /\ lastCall = "tearDown"
    /\ pre.loggedIn
    /\ callSubmitted = 1
    /\ state = "LoggedIn"
    /\ ~browserOpen

RatioEvents == {i \in 1..Len(events) : events[i].name = BOOKMARKED_TWEETS_EXTRACTION}

\* C11: in a run with a finite limit, every extraction-progress event carries
\* (min(accumulated, maxLimit), maxLimit), accumulated being the size of the set
\* just handed to onExtractTweets; so 0 <= complete <= total = maxLimit.
C11_RatioWithinLimit ==
    \A i \in RatioEvents :
        /\ maxLimit # POSITIVE_INFINITY
        /\ events[i].total = maxLimit
        /\ events[i].complete = Min(Len(tweets), maxLimit)
        /\ 0 <= events[i].complete
        /\ events[i].complete <= events[i].total

\* A bounded run whose accumulation reached the limit exactly and was reported.
C11_Witness ==
    /\ maxLimit = MaxLimit
    /\ pulls = MaxPulls
    /\ Len(tweets) = maxLimit
    /\ RatioEvents # {}

DistinctIds(s) == \A i, j \in 1..Len(s) : s[i].id = s[j].id => i = j

\* C12: merging a batch deduplicates by identifier: a tweet already in the
\* accumulated set keeps its field values and its position, and after the merge
\* the set holds no other tweet with that identifier (one tweet per identifier,
\* so the size is the number of distinct identifiers).
C12_MergeDedupesById ==
    [][(hasAcc /\ DistinctIds(acc)) =>
          \A i \in 1..Len(acc) :
              /\ i <= Len(acc')
              /\ acc'[i] = acc[i]
              /\ \A j \in 1..Len(acc') : acc'[j].id = acc[i].id => j = i]_vars

\* C13: on normal completion stop() runs once (one extraction-complete event,
\* one export, one close of the session) and successCallback is called exactly
\* once, only after stop() has finished and released the session.
C13_CompletionHandledOnce ==
    /\ successCalls <= 1
    /\ successCalls = 1 =>
           /\ pc = "done"
           /\ ~sessionOpen
           /\ closeCalls = 1
    /\ stopCaller = "onComplete" =>
           /\ Count(BOOKMARKED_TWEETS_EXTRACT_COMPLETE) = 1
           /\ exportCalls = 1
           /\ closeCalls <= 1
           /\ errorCalls = 0
    /\ pc = "done" =>
           /\ stopCaller = "onComplete"
           /\ successCalls = 1
           /\ printCalls = 1

\* A run that pulled batches, completed and called successCallback.
C13_Witness ==
    /\ pc = "done"
    /\ pulls >= 1
    /\ successCalls = 1
    /\ ~sessionOpen

\* C14: a failure of a pull is surfaced exactly once: the error's message, then
\* its trace if it has one, are emitted as message events before errorCallback
\* is called; errorCallback is called exactly once; and no event (no
\* extraction-progress event, no completion) follows.
C14_ErrorSurfacedOnce ==
    /\ errorCalls <= 1
    /\ errorCalls = 1 =>
           LET n == Len(events)
           IN  /\ pc = "failed"
               /\ errorCallbackAt = n
               /\ Count("err.message") = 1
               /\ \/ events[n] = MessageEvent("err.message")
                  \/ /\ n >= 2
                     /\ events[n - 1] = MessageEvent("err.message")
                     /\ events[n] = MessageEvent("err.stack")
               /\ RatioEvents = {}
               /\ BOOKMARKED_TWEETS_EXTRACT_COMPLETE \notin EventNames
               /\ successCalls = 0

\* An extraction that failed after a batch, with an error that has a trace.
C14_Witness ==
    /\ errorCalls = 1
    /\ pulls >= 1
    /\ Len(events) >= 2
    /\ events[Len(events)] = MessageEvent("err.stack")

ExportFailed == Count("Failed to export tweets to file.") = 1

\* C15: a failure of the file export is not fatal: it is caught, reported by
\* exactly one message event and no export-complete event, and stop() goes on
\* to the console export and the release of the session, after which
\* successCallback is called.
C15_ExportFailureNotFatal ==
    /\ Count("Failed to export tweets to file.") <= 1
    /\ ExportFailed =>
           /\ fileName
           /\ EXPORT_TWEETS \notin EventNames
           /\ pc \in {"printing", "closing", "stopped", "done"}
           /\ pc \in {"closing", "stopped", "done"} =>
                  (printCalls = 1 /\ printed = exported /\ closeCalls = 1)
           /\ pc \in {"stopped", "done"} => ~sessionOpen
           /\ pc = "done" => successCalls = 1
           /\ stopCaller = "onComplete" =>
                  \/ pc = "done"
                  \/ ENABLED (printTweetsToStdOut \/ CloseDone \/ OnCompleteResume)

\* A completed run whose file export failed: the tweets were still printed,
\* the session closed and successCallback called.
C15_Witness ==
    /\ ExportFailed
    /\ pc = "done"
    /\ Len(printed) >= 1
    /\ successCalls = 1
    /\ ~sessionOpen

\* The events of PROGRESS_EVENTS a run emits a fixed number of times: all but
\* the extraction-progress event, which is counted per unit of the limit.
FixedProgressEvents ==
    {i \in 1..Len(PROGRESS_EVENTS) : PROGRESS_EVENTS[i] # BOOKMARKED_TWEETS_EXTRACTION}

\* C16 as claimed: numEvents is the page manager's progress-event count plus
\* the number of entries of the task's progress-event list, plus maxLimit when
\* the limit is finite.
C16_NumEventsCountsWholeList ==
    \A n \in 0..MaxPMProgressEvents :
        numEvents(n) = n + Len(PROGRESS_EVENTS)
                         + (IF maxLimit # POSITIVE_INFINITY THEN maxLimit ELSE 0)

\* C16 amended: numEvents is the page manager's progress-event count plus the
\* number of the task's progress events other than extraction-progress (one
\* less than the entries of its list), plus maxLimit when the limit is finite
\* and nothing when it is not.
C16_NumEventsCountsFixedEvents ==
    \A n \in 0..MaxPMProgressEvents :
        numEvents(n) = n + Cardinality(FixedProgressEvents)
                         + (IF maxLimit # POSITIVE_INFINITY THEN maxLimit ELSE 0)

\* A finished bounded run: numEvents is the page manager's count plus the
\* complete and export events plus the limit.
C16_Witness ==
    /\ maxLimit = MaxLimit
    /\ pc = "done"
    /\ numEvents(MaxPMProgressEvents) = MaxPMProgressEvents + 2 + MaxLimit

\* C17: every call of a Client method (init, logIn, enterConfirmationCode,
\* enterTwoFactorCode, logOut, tearDown), from any reachable state and for any
\* page outcome, emits at most one event.
C17_AtMostOneEventPerCall == Len(callEvents) <= 1

\* A code entry on a controller that was never initialized: it emitted
\* internalError, went on to submit the code, and emitted nothing more.
C17_Witness ==
    /\ lastCall = "enterConfirmationCode"
    /\ ~pre.ready
    /\ callSubmitted = 1
    /\ callEvents = <<"internalError">>

IsPrefixOf(s, t) == Len(s) <= Len(t) /\ \A i \in 1..Len(s) : t[i] = s[i]

C19_LoggedInImpliesReady ==
    /\ state \in {"LoggedIn", "Needs2FACode", "NeedsConfirmationCode"} =>
           pageManagerReady
    /\ (lastCall = "tearDown" /\ pre.loggedIn) =>
           (pre.ready /\ callSubmitted = 1)

\* A tearDown from LoggedIn whose logout reached the logged-out page.
C19_Witness ==
    /\ lastCall = "tearDown"
    /\ pre.loggedIn
    /\ pageManagerReady
    /\ callSubmitted = 1
    /\ state = "LoggedOut"

\* C20: when the extraction stream signals an error, the task does not run
\* stop() (the error callback of the model does not call it): no
\* extraction-complete event, no export, no successCallback, and the session,
\* once opened, is never closed.
C20_ErrorNeverStops ==
    errorCalls > 0 =>
        /\ stopCaller = "none"
        /\ BOOKMARKED_TWEETS_EXTRACT_COMPLETE \notin EventNames
        /\ exportCalls = 0
        /\ printCalls = 0
        /\ successCalls = 0
        /\ closeCalls = 0
        /\ pulls >= 1 => sessionOpen
        /\ ~ENABLED (CloseDone \/ printTweetsToStdOut \/ OnCompleteResume \/ StopCalled)

\* An extraction that failed after MaxPulls batches: the session is left open.
C20_Witness ==
    /\ errorCalls = 1
    /\ pc = "failed"
    /\ pulls = MaxPulls
    /\ sessionOpen
    /\ closeCalls = 0

====
